---- MODULE Spec2Model ----
(***************************************************************************)
(* brokkr: the monitoring loop (monitor.py) and the sensor status          *)
(* acquisition it drives (monitoring/sensor.py).                           *)
(*                                                                         *)
(* One thread runs start_monitoring; an external controller may set the    *)
(* exit event at any moment.  Time is the monotonic clock, counted in      *)
(* clock quanta; monitor_interval and sleep_interval are given in the same *)
(* quanta (the source converts between s and ns by the factor 1e9).        *)
(*                                                                         *)
(* Spec and LiveSpec follow one call of start_monitoring tick by tick;     *)
(* MergeSpec is get_status_data on any list of sources; SharedSpec is two  *)
(* calls of start_monitoring on one exit event; PacketSpec is the packet   *)
(* handling of read_hs_packet on any bytes received.                       *)
(***************************************************************************)
EXTENDS Integers, Sequences, FiniteSets, TLC

\* ---------------------------------------------------------------- bounds
MaxClock == 8           \* the monotonic clock is followed up to this value
MaxStep == 2            \* longest time one blocking call of a tick may take
MaxLag == 1             \* longest the clock advances between two consecutive
                        \* reads, and latest a wait returns after its timeout
MaxInterval == 3        \* monitor_interval ranges over 2..MaxInterval
MaxSleep == 2           \* sleep_interval ranges over 1..MaxSleep
MaxStart == 1           \* START_TIME ranges over 0..MaxStart
MaxItems == 3           \* longest status_data_items given to get_status_data
MaxRead == 6            \* longest datagram given to lines 134-140 on their own
MaxStall == 2           \* longest the thread is held up between the test of
                        \* line 82 and the clock read of line 84

VARIABLES
    pc,                \* position of the thread running start_monitoring
    clock,             \* utils.monotonic_ns(), the value the next read returns
    START_TIME,        \* utils.START_TIME
    monitor_interval,  \* parameter of start_monitoring
    sleep_interval,    \* parameter of start_monitoring
    exit_event,        \* exit_event.is_set()
    next_time,         \* local of start_monitoring
    now1,              \* the first clock read of the next_time expression
    wait_timeout,      \* the argument of the exit_event.wait call in progress
    idx,               \* index into STATUS_DATA_ITEMS of the item being fetched
    status_data,       \* local of get_status_data
    exc,               \* the exception in flight ("None" when there is none)
    platform,          \* which errno names the platform defines
    status_data_items, \* parameter of get_status_data
    sock,              \* the socket of read_hs_packet
    packet,            \* local of read_hs_packet / get_hs_data
    bind_exc,          \* the bind error being handled: <<class, errno>>
    ping_output,       \* what subprocess.run did: <<raised, returncode>>
    recvd,             \* what sock.recv did: <<"raised", class>>, or
                       \* <<"data", d>> with d the bytes returned (in the
                       \* loop only whether there were any, see Received)
    calls,             \* how often the tick in progress has called each
                       \* operation
    log,               \* the log records of the tick in progress or just over
    written,           \* the records that tick handed to output.write_line_csv
    tickStart,         \* clock value at which the latest tick began
    tickTook,          \* the tick's duration against monitor_interval, from
                       \* its end to the start of the next tick
    tickResult,        \* how it ended, "returned" or "raised", likewise
    allShort,          \* every tick so far took less than monitor_interval
    setAt,             \* where the thread was when the controller set the event
    ticksAfterSet,     \* ticks started since the controller set the event
    waitsAfterSet,     \* wait calls begun since the controller set the event
    exitReason         \* why start_monitoring ended ("" while it runs)

vars == <<pc, clock, START_TIME, monitor_interval, sleep_interval, exit_event,
          next_time, now1, wait_timeout, idx, status_data, exc, platform,
          status_data_items, sock,
          packet, bind_exc, ping_output, recvd, calls, log, written,
          tickStart, tickTook, tickResult, allShort, setAt, ticksAfterSet,
          waitsAfterSet, exitReason>>

\* ------------------------------------------------------------- dictionaries
None == "None"
EmptyDict == [k \in {} |-> None]

DictUpdate_KeepExisting(d, other) ==
    [k \in DOMAIN d \cup DOMAIN other |->
        IF k \in DOMAIN d THEN d[k] ELSE other[k]]

\* dict.update(other): every key of other overwrites the key in d
DictUpdate(d, other) ==
    [k \in DOMAIN d \cup DOMAIN other |->
        IF k \in DOMAIN other THEN other[k] ELSE d[k]]

\* d[key] = value
DictSetItem(d, key, value) ==
    [k \in DOMAIN d \cup {key} |-> IF k = key THEN value ELSE d[k]]

\* ---------------------------------------------------------------- scaling
MaxDatagram == 3        \* stands for BUFFER_SIZE_HS (128), the longest read
MaxPacket == 2          \* stands for DataDecoder(...).packet_size (60)
Bytes == {0, 1}

\* ------------------------------------------------------------- exceptions
\* The classes that occur, each with its base class.
BaseClass(cls) ==
    CASE cls = "timeout" -> "OSError"              \* socket.timeout
      [] cls = "OSError" -> "Exception"
      [] cls = "TimeoutExpired" -> "SubprocessError"
      [] cls = "SubprocessError" -> "Exception"
      [] cls = "ValueError" -> "Exception"
      [] cls = "DecodeError" -> "Exception"
      [] cls = "Exception" -> "BaseException"
      [] OTHER -> "object"

RECURSIVE IsInstance(_, _)
IsInstance(cls, handler) ==
    IF cls = handler THEN TRUE
    ELSE IF cls \in {"object", None} THEN FALSE
    ELSE IsInstance(BaseClass(cls), handler)

\* ------------------------------------------------------------ monitor.py
STATUS_DATA_ITEMS ==
    << [name |-> "time", fn |-> "utcnow", unpack |-> FALSE],
       [name |-> "runtime", fn |-> "start_time_offset", unpack |-> FALSE],
       [name |-> "ping", fn |-> "ping", unpack |-> FALSE],
       [name |-> "sunsaver", fn |-> "get_sunsaver_data", unpack |-> TRUE],
       [name |-> "hs", fn |-> "get_hs_data", unpack |-> TRUE] >>

\* get_status_data, lines 40-43: what one item's output does to status_data
StoreOutput(d, item, output_data) ==
    IF item.unpack
    THEN DictUpdate(d, output_data)
    ELSE DictSetItem(d, item.name, output_data)

\* ------------------------------------------------------------- sensor.py
\* errno names the platform defines, with the code each stands for
ErrnoAttr(plat, attr) ==
    CASE plat = "posix" /\ attr = "EADDRNOTAVAIL" -> "99"
      [] plat = "windows" /\ attr = "EADDRNOTAVAIL" -> "10049"
      [] plat = "windows" /\ attr = "WSAEADDRNOTAVAIL" -> "10049"
      [] OTHER -> None

ERROR_CODES_LINK_DOWN(plat) ==
    { ErrnoAttr(plat, "EADDRNOTAVAIL"), ErrnoAttr(plat, "WSAEADDRNOTAVAIL") }

\* the errno values a bind error may carry: none, 0, address not available
\* of either platform family, address in use
Errnos == { None, "0", "99", "10049", "98" }

\* Python truthiness of e.errno
Truthy(errno) == errno \notin { None, "0" }

NotLinkDown_NoTruthTest(plat, errno) ==
    errno \notin ERROR_CODES_LINK_DOWN(plat)

\* read_hs_packet, line 106: the bind error is not a link-down one
NotLinkDown(plat, errno) ==
    ~Truthy(errno) \/ errno \notin ERROR_CODES_LINK_DOWN(plat)

\* subprocess.run(...).returncode of the ping process: its exit status, or
\* minus the number of the signal that ended it
ProbeReturnCodes == { 0, -1, -9 }

PingResult_OneFailureCode(raised, returncode) ==
    IF raised = None THEN returncode ELSE -9

\* sensor.ping, lines 67-82: the value returned for what subprocess.run did
PingResult(raised, returncode) ==
    IF raised = None THEN returncode
    ELSE IF IsInstance(raised, "TimeoutExpired") THEN -1
    ELSE IF IsInstance(raised, "Exception") THEN -9
    ELSE returncode

Truncate_KeepsTail(p, n) ==
    SubSeq(p, IF Len(p) < n THEN 1 ELSE Len(p) - n + 1, Len(p))

\* packet[:packet_size]
Truncate(p, n) == SubSeq(p, 1, IF Len(p) < n THEN Len(p) ELSE n)

\* read_hs_packet, lines 134-140
NoData == << -1 >>      \* the value None of packet
PacketOf(datagram, packet_size) ==
    IF datagram # <<>> THEN Truncate(datagram, packet_size) ELSE NoData

Datagrams ==
    UNION { [1..n -> Bytes] : n \in 0..MaxDatagram }

buffer_size == MaxDatagram
packet_size == MaxPacket

\* sunsaver.get_sunsaver_data: the mappings it may return; a key of it may
\* be a key of another item
SunsaverOutputs ==
    { [k \in {"battery_v", "sequence_count"} |-> <<"sunsaver", 1>>] }

\* DataDecoder.decode_data: a buffer shorter than packet_size is a decode
\* error; what it does with None is not fixed, both outcomes are kept
DecodeOutcomes(raw_data) ==
    IF raw_data = NoData
    THEN { [raised |-> "DecodeError", data |-> EmptyDict],
           [raised |-> None,
            data |-> [k \in {"sequence_count"} |-> <<"hs", -1>>]] }
    ELSE IF Len(raw_data) < packet_size
    THEN { [raised |-> "DecodeError", data |-> EmptyDict] }
    ELSE { [raised |-> None,
            data |-> [k \in {"sequence_count"} |-> <<"hs", raw_data[1]>>]] }

\* ------------------------------------------------------------------ state
\* the operations a tick calls: the fn of each item, and what ping,
\* read_hs_packet and get_hs_data call
Operations ==
    { "utcnow", "start_time_offset", "ping", "get_sunsaver_data",
      "get_hs_data", "fixed", "subprocess.run", "socket", "bind", "recv",
      "decode_hs_packet", "write_line_csv" }

NoCalls == [op \in Operations |-> 0]

\* calls after one more call of each operation of ops
Called(ops) ==
    [op \in Operations |-> calls[op] + (IF op \in ops THEN 1 ELSE 0)]

Min(a, b) == IF a < b THEN a ELSE b
Max(a, b) == IF a > b THEN a ELSE b

Init ==
    /\ pc = "while_exit"
    /\ START_TIME \in 0..MaxStart
    /\ clock \in START_TIME..MaxStart
    /\ monitor_interval \in 2..MaxInterval
    /\ sleep_interval \in 1..MaxSleep
    /\ exit_event \in BOOLEAN
    /\ next_time = 0
    /\ now1 = 0
    /\ wait_timeout = 0
    /\ idx = 0
    /\ status_data = EmptyDict
    /\ exc = None
    /\ platform \in {"posix", "windows"}
    /\ status_data_items = STATUS_DATA_ITEMS
    /\ sock = "none"
    /\ packet = NoData
    /\ bind_exc = <<>>
    /\ ping_output = <<>>
    /\ recvd = <<>>
    /\ calls = NoCalls
    /\ log = {}
    /\ written = <<>>
    /\ tickStart = 0
    /\ tickTook = ""
    /\ tickResult = ""
    /\ allShort = TRUE
    /\ setAt = ""
    /\ ticksAfterSet = 0
    /\ waitsAfterSet = 0
    /\ exitReason = ""

paramVars == <<START_TIME, monitor_interval, sleep_interval, platform,
               status_data_items>>
schedVars == <<paramVars, next_time, now1, wait_timeout>>
cancelVars == <<exit_event, setAt, ticksAfterSet, waitsAfterSet, exitReason>>
tickVars == <<idx, status_data, exc, sock, packet, bind_exc, ping_output,
              recvd, calls, log, written, tickStart, tickTook, tickResult,
              allShort>>

\* the clock moves on by d
Elapse(d) == clock + d <= MaxClock /\ clock' = clock + d

Compare(duration, interval) ==
    IF duration < interval THEN "less"
    ELSE IF duration = interval THEN "equal" ELSE "more"

\* --------------------------------------------- start_monitoring: the tick
\* line 72, the outer loop's test; a tick starts when the event is not set
ExitRequested_Never == FALSE

ExitRequested_AfterFirstTick == exit_event /\ next_time # 0

\* line 72: exit_event.is_set()
ExitRequested == exit_event

WhileExit ==
    /\ pc = "while_exit"
    /\ IF ExitRequested
       THEN /\ pc' = "clear"
            /\ exitReason' = "exit_event set"
            /\ UNCHANGED <<idx, status_data, calls, log, written, tickStart,
                           tickTook, tickResult, ticksAfterSet>>
       ELSE /\ pc' = "fetch"
            /\ calls' = NoCalls
            /\ tickTook' = ""
            /\ tickResult' = ""
            /\ idx' = 1
            /\ status_data' = EmptyDict
            /\ log' = {}
            /\ written' = <<>>
            /\ tickStart' = clock
            /\ ticksAfterSet' = ticksAfterSet + (IF setAt # "" THEN 1 ELSE 0)
            /\ UNCHANGED exitReason
    /\ UNCHANGED <<clock, schedVars, exit_event, setAt, waitsAfterSet, exc,
                   sock, packet, bind_exc, ping_output, recvd, allShort>>

Item == status_data_items[idx]

\* get_status_data, lines 38-44: the item's output is stored and the loop
\* goes to the next item, or returns to record_status_data
Stored(output_data) ==
    /\ status_data' = StoreOutput(status_data, Item, output_data)
    /\ idx' = idx + 1
    /\ pc' = IF idx = Len(status_data_items) THEN "write" ELSE "fetch"
    /\ UNCHANGED exc

Raised_Swallowed(cls) ==
    /\ idx' = idx + 1
    /\ pc' = IF idx = Len(status_data_items) THEN "write" ELSE "fetch"
    /\ UNCHANGED <<status_data, exc>>

\* an exception leaves get_status_data and record_status_data (neither has
\* a handler) and reaches the try of start_monitoring, line 73
Raised(cls) ==
    /\ pc' = "except"
    /\ exc' = cls
    /\ UNCHANGED <<status_data, idx>>

\* line 39 for datetime.datetime.utcnow and utils.start_time_offset
FetchClock ==
    /\ pc = "fetch"
    /\ Item.fn \in {"utcnow", "start_time_offset"}
    /\ Stored(<<Item.name, 0>>)
    /\ calls' = Called({Item.fn})
    /\ UNCHANGED <<clock, schedVars, cancelVars, sock, packet, bind_exc,
                   ping_output, recvd, log, written, tickStart, tickTook,
                   tickResult, allShort>>

\* what subprocess.run may do: return with a return code, or raise
ProbeOutcomes ==
    { <<None, returncode>> : returncode \in ProbeReturnCodes }
        \cup { <<"TimeoutExpired", 0>>, <<"OSError", 0>> }

\* line 39 for sensor.ping, lines 41-69: ping builds the command and calls
\* subprocess.run, which returns or raises
FetchPing ==
    /\ pc = "fetch"
    /\ Item.fn = "ping"
    /\ \E d \in 0..MaxStep : Elapse(d)
    /\ \E outcome \in ProbeOutcomes : ping_output' = outcome
    /\ calls' = Called({"ping", "subprocess.run"})
    /\ pc' = "ping_return"
    /\ UNCHANGED <<schedVars, cancelVars, idx, status_data, exc, sock, packet,
                   bind_exc, recvd, log, written, tickStart, tickTook,
                   tickResult, allShort>>

\* lines 70-82: the handlers of ping's try and its return statements; an
\* exception no handler takes leaves ping
PingReturn ==
    /\ pc = "ping_return"
    /\ LET raised == ping_output[1]
           returncode == ping_output[2]
       IN  /\ log' = log \cup
                 (IF raised = None THEN {}
                  ELSE IF IsInstance(raised, "TimeoutExpired")
                  THEN {<<"warning", "ping timeout">>}
                  ELSE IF IsInstance(raised, "Exception")
                  THEN {<<"error", "ping">>}
                  ELSE {})
           /\ IF raised = None \/ IsInstance(raised, "Exception")
              THEN Stored(<<"ping", PingResult(raised, returncode)>>)
              ELSE Raised(raised)
    /\ ping_output' = <<>>
    /\ UNCHANGED <<clock, schedVars, cancelVars, sock, packet, bind_exc, recvd,
                   calls, written, tickStart, tickTook, tickResult, allShort>>

\* line 39 for sunsaver.get_sunsaver_data
FetchSunsaver ==
    /\ pc = "fetch"
    /\ Item.fn = "get_sunsaver_data"
    /\ \/ \E m \in SunsaverOutputs : Stored(m)
       \/ Raised("ValueError")
    /\ calls' = Called({"get_sunsaver_data"})
    /\ UNCHANGED <<clock, schedVars, cancelVars, sock, packet, bind_exc,
                   ping_output, recvd, log, written, tickStart, tickTook,
                   tickResult, allShort>>

\* ---------------------------------------------- sensor.py: read_hs_packet
\* line 100: get_hs_data calls read_hs_packet, which opens its socket
HsSocket ==
    /\ pc = "fetch"
    /\ Item.fn = "get_hs_data"
    /\ \/ /\ sock' = "open"
          /\ pc' = "hs_bind"
          /\ UNCHANGED <<exc, status_data, idx>>
       \/ /\ Raised("OSError")
          /\ UNCHANGED sock
    /\ bind_exc' = <<>>
    /\ calls' = Called({"get_hs_data", "socket"})
    /\ UNCHANGED <<clock, schedVars, cancelVars, packet, ping_output, recvd,
                   log, written, tickStart, tickTook, tickResult, allShort>>

BindFailed_BindAgain(cls, errno) ==
    /\ log' = log \cup {<<"error", "connecting">>, <<"details", "LOGGER">>}
    /\ pc' = "hs_bind"
    /\ UNCHANGED <<bind_exc, sock, packet>>

BindFailed_SocketLeftOpen(cls, errno) ==
    /\ log' = log \cup {<<"error", "connecting">>, <<"details", "LOGGER">>}
    /\ bind_exc' = <<cls, errno>>
    /\ packet' = NoData
    /\ pc' = "hs_decode"
    /\ UNCHANGED sock

\* lines 105-120: the handlers of the bind's try; each returns None, which
\* leaves the with block
BindFailed(cls, errno) ==
    /\ log' = log \cup
          (IF IsInstance(cls, "OSError")
           THEN IF NotLinkDown(platform, errno)
                THEN {<<"error", "connecting">>, <<"details", "LOGGER">>}
                ELSE {<<"debug", "suppressing">>, <<"details", "debug">>}
           ELSE {<<"error", "connecting">>, <<"details", "LOGGER">>})
    /\ bind_exc' = <<cls, errno>>
    /\ sock' = "closed"
    /\ packet' = NoData
    /\ pc' = "hs_decode"

\* lines 101-104: settimeout and bind
HsBind ==
    /\ pc = "hs_bind"
    /\ \/ /\ sock' = "bound"
          /\ pc' = "hs_recv"
          /\ UNCHANGED <<log, packet, bind_exc>>
       \/ \E errno \in Errnos : BindFailed("OSError", errno)
       \/ BindFailed("ValueError", None)
    /\ calls' = Called({"bind"})
    /\ UNCHANGED <<clock, schedVars, cancelVars, idx, status_data, exc,
                   ping_output, recvd, written, tickStart, tickTook,
                   tickResult, allShort>>

\* lines 124-133: the handler of the recv's try that takes an error of
\* class cls
RecvHandler_TimeoutClauseOnly(cls) ==
    IF IsInstance(cls, "timeout") THEN "timeout" ELSE None

RecvHandler(cls) ==
    IF IsInstance(cls, "timeout") THEN "timeout"
    ELSE IF IsInstance(cls, "Exception") THEN "Exception"
    ELSE None

\* whether recv returned some bytes or none
Received(datagram) == IF datagram # <<>> THEN "bytes" ELSE "empty"

\* lines 121-140: recv, its handlers, the end of the with block and the
\* truncation of the packet
HsRecv ==
    /\ pc = "hs_recv"
    /\ \E d \in 0..MaxStep :
        /\ Elapse(d)
        /\ \/ \E datagram \in Datagrams :
                /\ Len(datagram) <= buffer_size
                /\ recvd' = <<"data", Received(datagram)>>
                /\ packet' = PacketOf(datagram, packet_size)
                /\ log' = log \cup
                      (IF datagram # <<>> THEN {<<"debug", "Packet">>}
                       ELSE {<<"warning", "null responce">>})
                /\ pc' = "hs_decode"
                /\ UNCHANGED <<exc, status_data, idx>>
           \/ \E cls \in {"timeout", "OSError"} :
                /\ recvd' = <<"raised", cls>>
                /\ packet' = NoData
                /\ log' = log \cup
                      (IF RecvHandler(cls) = "timeout"
                       THEN {<<"debug", "timed out">>, <<"details", "debug">>}
                       ELSE IF RecvHandler(cls) = "Exception"
                       THEN {<<"error", "recieving">>, <<"details", "LOGGER">>}
                       ELSE {})
                /\ IF RecvHandler(cls) # None
                   THEN pc' = "hs_decode" /\ UNCHANGED <<exc, status_data, idx>>
                   ELSE Raised(cls)
    /\ sock' = "closed"
    /\ calls' = Called({"recv"})
    /\ UNCHANGED <<schedVars, cancelVars, bind_exc, ping_output, written,
                   tickStart, tickTook, tickResult, allShort>>

HsDecode_CatchesDecodeError ==
    /\ pc = "hs_decode"
    /\ \E r \in DecodeOutcomes(packet) : Stored(r.data)
    /\ packet' = NoData
    /\ bind_exc' = <<>>
    /\ recvd' = <<>>
    /\ calls' = Called({"decode_hs_packet"})
    /\ UNCHANGED <<clock, schedVars, cancelVars, sock, ping_output, log,
                   written, tickStart, tickTook, tickResult, allShort>>

\* get_hs_data, lines 162-163: decode_hs_packet(packet), whatever packet is
HsDecode ==
    /\ pc = "hs_decode"
    /\ \E r \in DecodeOutcomes(packet) :
        IF r.raised = None THEN Stored(r.data) ELSE Raised(r.raised)
    /\ packet' = NoData
    /\ bind_exc' = <<>>
    /\ recvd' = <<>>
    /\ calls' = Called({"decode_hs_packet"})
    /\ UNCHANGED <<clock, schedVars, cancelVars, sock, ping_output, log,
                   written, tickStart, tickTook, tickResult, allShort>>

\* the try statement of lines 73-78 is left: the tick is over
TickOver(result) ==
    /\ tickResult' = result
    /\ tickTook' = Compare(clock - tickStart, monitor_interval)
    /\ allShort' = (allShort /\ clock - tickStart < monitor_interval)

\* ------------------------------------------ record_status_data, lines 50-58
\* the record is handed to output.write_line_csv, which writes it or raises
WriteLine ==
    /\ pc = "write"
    /\ written' = Append(written, status_data)
    /\ \/ /\ pc' = "next_time"
          /\ TickOver("returned")
          /\ UNCHANGED exc
       \/ /\ pc' = "except"
          /\ exc' = "OSError"
          /\ UNCHANGED <<tickTook, tickResult, allShort>>
    /\ calls' = Called({"write_line_csv"})
    /\ UNCHANGED <<clock, schedVars, cancelVars, idx, status_data, sock,
                   packet, bind_exc, ping_output, recvd, log, tickStart>>

\* ---------------------------------------- start_monitoring, lines 75-78
Caught_OSErrorOnly(cls) == IsInstance(cls, "OSError")

\* line 75: except Exception
Caught(cls) == IsInstance(cls, "Exception")

\* except Exception: the error is logged and the loop goes on; any other
\* exception leaves start_monitoring
ExceptHandler ==
    /\ pc = "except"
    /\ IF Caught(exc)
       THEN /\ log' = log \cup {<<"critical", exc>>, <<"info", "Details">>}
            /\ pc' = "next_time"
            /\ TickOver("raised")
            /\ UNCHANGED exitReason
       ELSE /\ pc' = "done"
            /\ exitReason' = "raised"
            /\ UNCHANGED <<log, tickTook, tickResult, allShort>>
    /\ exc' = None
    /\ UNCHANGED <<clock, schedVars, exit_event, setAt, ticksAfterSet,
                   waitsAfterSet, idx, status_data, sock, packet, bind_exc,
                   ping_output, recvd, calls, written, tickStart>>

\* ---------------------------------- start_monitoring, lines 79-84: the wait
\* line 79: the first utils.monotonic_ns() of the expression; the tick is
\* over, its record and log records are no longer followed
NextTimeRead ==
    /\ pc = "next_time"
    /\ \E d \in 0..MaxLag : Elapse(d)
    /\ now1' = clock'
    /\ pc' = "next_time_2"
    /\ status_data' = EmptyDict
    /\ log' = {}
    /\ written' = <<>>
    /\ calls' = NoCalls
    /\ UNCHANGED <<paramVars, next_time, wait_timeout, cancelVars, idx, exc,
                   sock, packet, bind_exc, ping_output, recvd,
                   tickStart, tickTook, tickResult, allShort>>

NextTimeOf_FromTickStart(first, second) == tickStart + monitor_interval

\* lines 79-81 for the two values read from the clock
NextTimeOf(first, second) ==
    first + monitor_interval
        - ((second - START_TIME) % monitor_interval)

\* lines 80-81: the second utils.monotonic_ns() and the assignment
NextTimeAssign ==
    /\ pc = "next_time_2"
    /\ \E d \in 0..MaxLag : Elapse(d)
    /\ next_time' = NextTimeOf(now1, clock')
    /\ now1' = 0
    /\ pc' = "while_wait"
    /\ UNCHANGED <<paramVars, wait_timeout, cancelVars, tickVars>>

\* line 82: the inner loop's test
WhileWait ==
    /\ pc = "while_wait"
    /\ IF exit_event
       THEN /\ pc' = "while_exit"
            /\ UNCHANGED clock
       ELSE /\ \E d \in 0..MaxLag : Elapse(d)
            /\ pc' = IF clock' < next_time THEN "wait_arg" ELSE "while_exit"
    /\ UNCHANGED <<schedVars, cancelVars, tickVars>>

\* lines 83-84: the argument of exit_event.wait
WaitTimeoutOf(now) == Min(sleep_interval, next_time - now)

\* lines 83-84: the clock is read again and exit_event.wait is called; it
\* blocks unless the event is already set
WaitCall ==
    /\ pc = "wait_arg"
    /\ \E d \in 0..MaxStall : Elapse(d)
    /\ wait_timeout' = WaitTimeoutOf(clock')
    /\ waitsAfterSet' = waitsAfterSet + (IF setAt # "" THEN 1 ELSE 0)
    /\ pc' = IF exit_event THEN "while_wait" ELSE "waiting"
    /\ UNCHANGED <<paramVars, next_time, now1, exit_event, setAt,
                   ticksAfterSet, exitReason, tickVars>>

\* the blocked exit_event.wait(timeout) returns: part-way if the event has
\* been set, else when the timeout (nothing, if negative) has passed
WaitReturn ==
    /\ pc = "waiting"
    /\ IF exit_event
       THEN \E d \in 0..Max(wait_timeout, 0) : Elapse(d)
       ELSE \E lag \in 0..MaxLag : Elapse(Max(wait_timeout, 0) + lag)
    /\ wait_timeout' = 0
    /\ pc' = "while_wait"
    /\ UNCHANGED <<paramVars, next_time, now1, cancelVars, tickVars>>

Clear_Forgotten ==
    /\ pc = "clear"
    /\ pc' = "done"
    /\ UNCHANGED <<clock, schedVars, cancelVars, tickVars>>

\* line 85
Clear ==
    /\ pc = "clear"
    /\ exit_event' = FALSE
    /\ pc' = "done"
    /\ UNCHANGED <<clock, schedVars, setAt, ticksAfterSet, waitsAfterSet,
                   exitReason, tickVars>>

\* ------------------------------------------------------- the controller
\* where start_monitoring is: in a tick (lines 73-78), computing next_time
\* (79-81), in the inner loop (82-84), or at the outer loop's test (72)
Phase ==
    CASE pc \in {"fetch", "ping_return", "hs_bind", "hs_recv", "hs_decode",
                 "write", "except"}
            -> "tick"
      [] pc \in {"next_time", "next_time_2"} -> "next_time"
      [] pc \in {"while_wait", "wait_arg", "waiting"} -> "sleep"
      [] OTHER -> pc

\* exit_event.set() by another thread while start_monitoring runs
SetExit ==
    /\ pc # "done"
    /\ ~exit_event
    /\ exit_event' = TRUE
    /\ setAt' = Phase
    /\ UNCHANGED <<pc, clock, schedVars, ticksAfterSet, waitsAfterSet,
                   exitReason, tickVars>>

Next ==
    \/ WhileExit
    \/ FetchClock
    \/ FetchPing
    \/ PingReturn
    \/ FetchSunsaver
    \/ HsSocket
    \/ HsBind
    \/ HsRecv
    \/ HsDecode
    \/ WriteLine
    \/ ExceptHandler
    \/ NextTimeRead
    \/ NextTimeAssign
    \/ WhileWait
    \/ WaitCall
    \/ WaitReturn
    \/ Clear
    \/ SetExit

Spec == Init /\ [][Next]_vars

\* the steps of the thread that runs start_monitoring
Thread ==
    \/ WhileExit \/ FetchClock \/ FetchPing \/ PingReturn \/ FetchSunsaver
    \/ HsSocket
    \/ HsBind \/ HsRecv \/ HsDecode \/ WriteLine \/ ExceptHandler
    \/ NextTimeRead \/ NextTimeAssign \/ WhileWait \/ WaitCall \/ WaitReturn
    \/ Clear

\* one platform and one origin of the clock
LiveInit == Init /\ platform = "posix" /\ START_TIME = 0 /\ clock = 0

\* the thread keeps running and every call of a tick returns or raises
LiveSpec == LiveInit /\ [][Next]_vars /\ WF_vars(Thread)

\* ------------------------------- get_status_data on any list of sources
\* the sources a list may hold: a name, and either a value stored under the
\* name or a mapping over some keys to unpack
MergeKeys == {"a", "b", "c"}
MergeSources ==
    [name : {"a", "b"}, fn : {"fixed"}, unpack : {FALSE}, keys : {{}}]
        \cup [name : {"a", "b"}, fn : {"fixed"}, unpack : {TRUE},
              keys : SUBSET MergeKeys]

\* what the fn of the i-th source returns: a value no other source returns
FnOutput(i) ==
    IF status_data_items[i].unpack
    THEN [k \in status_data_items[i].keys |-> <<"out", i>>]
    ELSE <<"out", i>>

MergeInit ==
    /\ pc = "fetch"
    /\ idx = 1
    /\ status_data = EmptyDict
    /\ status_data_items \in
          UNION { [1..n -> MergeSources] : n \in 0..MaxItems }
    /\ START_TIME = 0
    /\ clock = 0
    /\ monitor_interval = 2
    /\ sleep_interval = 1
    /\ exit_event = FALSE
    /\ next_time = 0
    /\ now1 = 0
    /\ wait_timeout = 0
    /\ exc = None
    /\ platform = "posix"
    /\ sock = "none"
    /\ packet = NoData
    /\ bind_exc = <<>>
    /\ ping_output = <<>>
    /\ recvd = <<>>
    /\ calls = NoCalls
    /\ log = {}
    /\ written = <<>>
    /\ tickStart = 0
    /\ tickTook = ""
    /\ tickResult = ""
    /\ allShort = TRUE
    /\ setAt = ""
    /\ ticksAfterSet = 0
    /\ waitsAfterSet = 0
    /\ exitReason = ""

\* lines 38-43: one iteration of the loop of get_status_data
MergeStep ==
    /\ pc = "fetch"
    /\ idx <= Len(status_data_items)
    /\ status_data' = StoreOutput(status_data, Item, FnOutput(idx))
    /\ idx' = idx + 1
    /\ calls' = Called({Item.fn})
    /\ UNCHANGED <<pc, clock, schedVars, cancelVars, exc, sock, packet,
                   bind_exc, ping_output, recvd, log, written, tickStart,
                   tickTook, tickResult, allShort>>

\* line 44: return status_data
MergeReturn ==
    /\ pc = "fetch"
    /\ idx > Len(status_data_items)
    /\ pc' = "returned"
    /\ UNCHANGED <<clock, schedVars, cancelVars, tickVars>>

MergeNext == MergeStep \/ MergeReturn

MergeSpec == MergeInit /\ [][MergeNext]_vars

\* --------------------- two calls of start_monitoring sharing one exit_event
\* Both calls take the default exit_event of line 66, one Event object made
\* when the function is defined.  Each call runs in its own thread and pc
\* holds the position of each.  A tick is one step; the clock is left out:
\* the test of line 82 finds the clock before next_time or not, and a
\* blocked wait returns when the event is set or its timeout is over.
Loops == {1, 2}

SharedInit ==
    /\ pc = [i \in Loops |-> "while_exit"]
    /\ exit_event = FALSE
    /\ START_TIME = 0
    /\ clock = 0
    /\ monitor_interval = 2
    /\ sleep_interval = 1
    /\ next_time = 0
    /\ wait_timeout = 0
    /\ now1 = 0
    /\ idx = 0
    /\ status_data = EmptyDict
    /\ status_data_items = STATUS_DATA_ITEMS
    /\ exc = None
    /\ platform = "posix"
    /\ sock = "none"
    /\ packet = NoData
    /\ bind_exc = <<>>
    /\ ping_output = <<>>
    /\ recvd = <<>>
    /\ calls = NoCalls
    /\ log = {}
    /\ written = <<>>
    /\ tickStart = 0
    /\ tickTook = ""
    /\ tickResult = ""
    /\ allShort = TRUE
    /\ setAt = <<>>
    /\ ticksAfterSet = 0
    /\ waitsAfterSet = 0
    /\ exitReason = ""

\* what no step of the two calls changes
sharedFixed == <<clock, schedVars, tickVars, ticksAfterSet, waitsAfterSet,
                 exitReason>>

\* line 72
LoopWhileExit(i) ==
    /\ pc[i] = "while_exit"
    /\ pc' = [pc EXCEPT ![i] = IF exit_event THEN "clear" ELSE "tick"]
    /\ UNCHANGED <<exit_event, setAt, sharedFixed>>

\* lines 73-78: record_status_data returns, or raises and is caught
LoopTick(i) ==
    /\ pc[i] = "tick"
    /\ pc' = [pc EXCEPT ![i] = "next_time"]
    /\ UNCHANGED <<exit_event, setAt, sharedFixed>>

\* lines 79-81
LoopNextTime(i) ==
    /\ pc[i] = "next_time"
    /\ pc' = [pc EXCEPT ![i] = "while_wait"]
    /\ UNCHANGED <<exit_event, setAt, sharedFixed>>

\* line 82
LoopWhileWait(i) ==
    /\ pc[i] = "while_wait"
    /\ \E before_next_time \in BOOLEAN :
        pc' = [pc EXCEPT ![i] =
                 IF ~exit_event /\ before_next_time THEN "wait_arg"
                 ELSE "while_exit"]
    /\ UNCHANGED <<exit_event, setAt, sharedFixed>>

\* lines 83-84: the wait blocks unless the event is set
LoopWaitCall(i) ==
    /\ pc[i] = "wait_arg"
    /\ pc' = [pc EXCEPT ![i] = IF exit_event THEN "while_wait" ELSE "waiting"]
    /\ UNCHANGED <<exit_event, setAt, sharedFixed>>

\* the blocked wait returns: the event has been set, or the timeout is over
LoopWaitReturn(i) ==
    /\ pc[i] = "waiting"
    /\ pc' = [pc EXCEPT ![i] = "while_wait"]
    /\ UNCHANGED <<exit_event, setAt, sharedFixed>>

\* line 85
LoopClear(i) ==
    /\ pc[i] = "clear"
    /\ exit_event' = FALSE
    /\ pc' = [pc EXCEPT ![i] = "done"]
    /\ UNCHANGED <<setAt, sharedFixed>>

\* exit_event.set(), called once, while both calls run; setAt keeps where
\* each call was
SharedSet ==
    /\ setAt = <<>>
    /\ exit_event' = TRUE
    /\ setAt' = pc
    /\ UNCHANGED <<pc, sharedFixed>>

LoopThread(i) ==
    \/ LoopWhileExit(i) \/ LoopTick(i) \/ LoopNextTime(i) \/ LoopWhileWait(i)
    \/ LoopWaitCall(i) \/ LoopWaitReturn(i) \/ LoopClear(i)

SharedNext ==
    \/ \E i \in Loops : LoopWhileExit(i)
    \/ \E i \in Loops : LoopTick(i)
    \/ \E i \in Loops : LoopNextTime(i)
    \/ \E i \in Loops : LoopWhileWait(i)
    \/ \E i \in Loops : LoopWaitCall(i)
    \/ \E i \in Loops : LoopWaitReturn(i)
    \/ \E i \in Loops : LoopClear(i)
    \/ SharedSet

\* both threads keep running
SharedSpec ==
    /\ SharedInit
    /\ [][SharedNext]_vars
    /\ \A i \in Loops : WF_vars(LoopThread(i))

\* ------------------- read_hs_packet, lines 134-140, on any bytes received
\* what sock.recv may have returned
ReadDatagrams ==
    UNION { [1..n -> Bytes] : n \in 0..MaxRead }

\* sock.recv has returned and the with block is left
PacketInit ==
    /\ pc = "hs_packet"
    /\ recvd \in { <<"data", datagram>> : datagram \in ReadDatagrams }
    /\ packet = NoData
    /\ sock = "closed"
    /\ idx = Len(STATUS_DATA_ITEMS)
    /\ status_data = EmptyDict
    /\ status_data_items = STATUS_DATA_ITEMS
    /\ START_TIME = 0
    /\ clock = 0
    /\ monitor_interval = 2
    /\ sleep_interval = 1
    /\ exit_event = FALSE
    /\ next_time = 0
    /\ now1 = 0
    /\ wait_timeout = 0
    /\ exc = None
    /\ platform = "posix"
    /\ bind_exc = <<>>
    /\ ping_output = <<>>
    /\ calls = NoCalls
    /\ log = {}
    /\ written = <<>>
    /\ tickStart = 0
    /\ tickTook = ""
    /\ tickResult = ""
    /\ allShort = TRUE
    /\ setAt = ""
    /\ ticksAfterSet = 0
    /\ waitsAfterSet = 0
    /\ exitReason = ""

\* lines 134-140: the packet is cut to packet_size, or None for no bytes
PacketStep ==
    /\ pc = "hs_packet"
    /\ packet' = PacketOf(recvd[2], packet_size)
    /\ log' = log \cup
          (IF recvd[2] # <<>> THEN {<<"debug", "Packet">>}
           ELSE {<<"warning", "null responce">>})
    /\ pc' = "hs_decode"
    /\ UNCHANGED <<clock, schedVars, cancelVars, idx, status_data, exc, sock,
                   bind_exc, ping_output, recvd, calls, written, tickStart,
                   tickTook, tickResult, allShort>>

PacketNext == PacketStep

PacketSpec == PacketInit /\ [][PacketNext]_vars

\* ------------------------------------------------------------------ claims
\* C1: an error raised by a tick is caught at the loop boundary, logged at
\* critical severity and not propagated; start_monitoring ends only because
\* it saw the exit event set, never because a tick failed.
C1_TickFailureNeverEndsLoop ==
    /\ exitReason # "raised"
    /\ pc \in {"clear", "done"} => exitReason = "exit_event set"
    /\ pc = "next_time" /\ tickResult = "raised" =>
          \E e \in log : e[1] = "critical"
    /\ pc = "except" => exc # None /\ tickResult = ""

\* a tick has failed and the loop is about to start the next tick
C1_Witness ==
    /\ pc = "while_exit"
    /\ tickResult = "raised"
    /\ ~exit_event
    /\ clock >= next_time

TickPcs ==
    {"fetch", "ping_return", "hs_bind", "hs_recv", "hs_decode", "write",
     "except"}

\* C2: when the exit event is set during the sleep phase, no further tick
\* starts, at most one more wait is called and its timeout is at most
\* sleep_interval; once start_monitoring has returned the event is clear.
C2_CancelDuringSleep ==
    /\ setAt = "sleep" =>
          /\ ticksAfterSet = 0
          /\ pc \notin TickPcs
          /\ waitsAfterSet <= 1
          /\ wait_timeout <= sleep_interval
    /\ pc = "done" => ~exit_event

\* the event was set between the inner loop's test and the wait; the wait
\* was called once more and start_monitoring has returned
C2_Witness ==
    /\ setAt = "sleep"
    /\ waitsAfterSet = 1
    /\ pc = "done"
    /\ exitReason = "exit_event set"

\* C3: once the controller has set the exit event, whether before a tick,
\* during a tick or during a wait, start_monitoring eventually returns, and
\* no tick starts after the set (only a tick already begun still runs).
C3_CancelTerminates ==
    /\ [](ticksAfterSet = 0)
    /\ (exit_event ~> pc = "done")

\* the event was set during a tick, the tick ran to its end and
\* start_monitoring returned
C3_Witness ==
    /\ setAt = "tick"
    /\ tickResult # ""
    /\ pc = "done"

\* the instants START_TIME + k*monitor_interval
Grid == { START_TIME + k * monitor_interval : k \in 0..(MaxClock + 1) }

\* the first of them later than t
GridAfter(t) ==
    CHOOSE g \in Grid : g > t /\ \A h \in Grid : h > t => g <= h

\* the interval of the grid that t lies in
IntervalOf(t) == (t - START_TIME) \div monitor_interval

\* C4: after a tick shorter than monitor_interval, the next_time assigned is
\* the first instant START_TIME + k*monitor_interval later than the current
\* clock, whatever values the clock reads return.
C4_NextTimeOnGrid ==
    [][pc = "next_time_2" /\ pc' = "while_wait" /\ tickTook = "less"
          => next_time' = GridAfter(clock')]_vars

\* C5: while every tick takes less than monitor_interval, each tick after
\* the first starts in the interval after the previous tick's, no earlier
\* than that interval's first instant and no later than sleep_interval
\* after it.
C5_TicksAligned ==
    [][pc = "while_exit" /\ pc' = "fetch" /\ tickResult # "" /\ allShort
          => LET k == IntervalOf(tickStart) + 1
                 g == START_TIME + k * monitor_interval
             IN  g <= tickStart' /\ tickStart' <= g + sleep_interval]_vars

\* C6 as stated: after a tick longer than monitor_interval the next_time
\* assigned is a past or current instant and the next tick starts without
\* any wait on the exit event.
C6_OverrunStartsNextTickAtOnce ==
    [][tickTook = "more" =>
          /\ pc = "next_time_2" /\ pc' = "while_wait" => next_time' <= clock'
          /\ pc' \notin {"wait_arg", "waiting"}]_vars

\* C6 as amended: after a tick longer than monitor_interval the next_time
\* assigned is later than the first clock value read for it, by at most
\* monitor_interval; the inner loop goes to a wait whenever its test reads a
\* clock before next_time, and the next tick starts without a wait only if
\* the clock has reached next_time by then (or the event is set).
C6_OverrunWaitsForGrid ==
    [][tickTook = "more" =>
          /\ pc = "next_time_2" /\ pc' = "while_wait" =>
                now1 < next_time' /\ next_time' <= now1 + monitor_interval
          /\ pc = "while_wait" /\ pc' = "while_exit" =>
                exit_event \/ clock' >= next_time
          /\ pc = "while_wait" /\ pc' = "wait_arg" => clock' < next_time]_vars

\* a tick took longer than monitor_interval and start_monitoring is blocked
\* in a wait for the next instant of the grid
C6_Witness ==
    /\ tickTook = "more"
    /\ pc = "waiting"
    /\ wait_timeout > 0
    /\ ~exit_event

\* the i-th source writes key k
Writes(i, k) ==
    IF status_data_items[i].unpack
    THEN k \in status_data_items[i].keys
    ELSE k = status_data_items[i].name

Writers(k) == { i \in 1..Len(status_data_items) : Writes(i, k) }

\* C7: the record get_status_data returns holds, for each key, the value of
\* the last source in the list that wrote the key, as an entry of its
\* unpacked mapping or under its name.
C7_LaterSourceWins ==
    pc = "returned" =>
        /\ DOMAIN status_data = { k \in MergeKeys : Writers(k) # {} }
        /\ \A k \in DOMAIN status_data :
              \E i \in Writers(k) :
                  /\ \A j \in Writers(k) : j <= i
                  /\ status_data[k] = <<"out", i>>

\* the unpacked sources over {a, b} and {b, c} have given a, b and c, the
\* value of b being the second source's
C7_Witness ==
    /\ pc = "returned"
    /\ Len(status_data_items) = 2
    /\ status_data_items[1].unpack /\ status_data_items[1].keys = {"a", "b"}
    /\ status_data_items[2].unpack /\ status_data_items[2].keys = {"b", "c"}
    /\ status_data = [k \in {"a", "b", "c"} |->
                         IF k = "a" THEN <<"out", 1>> ELSE <<"out", 2>>]

\* every source has returned: the loop of get_status_data is past the last
AllFetched == idx = Len(status_data_items) + 1

\* the keys of the sources of STATUS_DATA_ITEMS
AllKeys == {"time", "runtime", "ping", "battery_v", "sequence_count"}

\* C8: an error raised by a source's fetch passes get_status_data and
\* record_status_data uncaught; a tick hands a record to
\* output.write_line_csv if and only if every fetch of the tick returned,
\* then exactly once and with the merged output of all sources; a tick in
\* which a source fails hands over nothing.
C8_RecordIffAllSourcesReturn ==
    /\ Len(written) <= 1
    /\ written # <<>> =>
          /\ AllFetched
          /\ DOMAIN written[1] = AllKeys
          /\ pc \in {"next_time", "except"} => written[1] = status_data
    /\ pc = "except" /\ ~AllFetched => written = <<>>
    /\ pc = "next_time" =>
          /\ AllFetched <=> Len(written) = 1
          /\ ~AllFetched => tickResult = "raised"

\* sunsaver.get_sunsaver_data raised: the tick has ended with nothing handed
\* over, though time, runtime and ping had been collected
C8_Witness ==
    /\ pc = "next_time"
    /\ tickResult = "raised"
    /\ idx = 4
    /\ DOMAIN status_data = {"time", "runtime", "ping"}
    /\ written = <<>>

\* the tick's decode_hs_packet raised DecodeError
DecodeFailed == <<"critical", "DecodeError">> \in log

\* C9 as stated: when the decoder raises a decode error the tick still hands
\* a record to the sink, holding the other sources' values.
C9_DecodeErrorKeepsRecord ==
    pc = "next_time" /\ DecodeFailed =>
        /\ Len(written) = 1
        /\ {"time", "runtime", "ping", "battery_v"} \subseteq DOMAIN written[1]

\* a datagram shorter than packet_size has been received
ShortPacket == packet # NoData /\ Len(packet) < packet_size

\* C9 as amended: when the decoder raises a decode error (as for a datagram
\* shorter than packet_size) the error leaves get_hs_data, get_status_data
\* and record_status_data; the tick hands no record to the sink (the other
\* sources' values are dropped), start_monitoring logs the error at
\* critical severity and the loop goes on.
C9_DecodeErrorDropsRecord ==
    /\ [](DecodeFailed =>
            /\ written = <<>>
            /\ pc = "next_time"
            /\ tickResult = "raised"
            /\ exitReason = "")
    /\ [][pc = "hs_decode" /\ ShortPacket /\ pc' # pc =>
            pc' = "except" /\ exc' = "DecodeError" /\ written' = <<>>]_vars
    /\ [][pc = "except" /\ exc = "DecodeError" /\ pc' # pc =>
            DecodeFailed' /\ written' = <<>>]_vars

\* a datagram shorter than packet_size was received and the decode error
\* has ended the tick: ping and the others were collected, nothing is
\* handed over
C9_Witness ==
    /\ pc = "next_time"
    /\ DecodeFailed
    /\ <<"debug", "Packet">> \in log
    /\ {"time", "runtime", "ping", "battery_v"} \subseteq DOMAIN status_data
    /\ written = <<>>

\* the platform's "address not available" code
AddrNotAvail == IF platform = "posix" THEN "99" ELSE "10049"

BindErrorLogged ==
    <<"error", "connecting">> \in log /\ <<"details", "LOGGER">> \in log
BindSuppressed ==
    <<"debug", "suppressing">> \in log /\ <<"details", "debug">> \in log

\* C10: a bind error with the platform's "address not available" code is
\* logged at debug severity only; every other bind error (another code, no
\* code, code 0, not an OSError) is logged at error severity with the socket
\* and address; either way read_hs_packet returns None without a recv.
C10_BindFailureClassified ==
    bind_exc # <<>> =>
        /\ pc = "hs_decode"
        /\ packet = NoData
        /\ sock = "closed"
        /\ \A e \in log : e[2] \notin {"Packet", "timed out", "recieving",
                                       "null responce"}
        /\ IF bind_exc[1] = "OSError" /\ bind_exc[2] = AddrNotAvail
           THEN BindSuppressed /\ \A e \in log : e[2] # "connecting"
           ELSE BindErrorLogged /\ \A e \in log : e[2] # "suppressing"

\* on a platform whose link-down set holds None, a bind error without errno
\* has been logged at error severity
C10_Witness ==
    /\ bind_exc = <<"OSError", None>>
    /\ None \in ERROR_CODES_LINK_DOWN(platform)
    /\ BindErrorLogged

\* read_hs_packet has returned None to get_hs_data
ReturnedNoData == pc = "hs_decode" /\ packet = NoData /\ exc = None

\* C11: on a link-down bind failure, any other bind error, a receive timeout,
\* any other receive error and an empty datagram, read_hs_packet returns None
\* and no exception leaves it; the timeout is logged at debug severity only,
\* another receive error at error severity, the empty datagram at warning
\* severity.
C11_ReadHsPacketReturnsNoData ==
    /\ [][pc' # pc /\ pc \in {"hs_bind", "hs_recv"} =>
            exc' = None /\ pc' \in {"hs_recv", "hs_decode"}]_vars
    /\ [](bind_exc # <<>> => ReturnedNoData)
    /\ [](recvd = <<"raised", "timeout">> =>
            /\ ReturnedNoData
            /\ <<"debug", "timed out">> \in log
            /\ \A e \in log : e[2] \notin {"recieving", "null responce"})
    /\ [](recvd = <<"raised", "OSError">> =>
            /\ ReturnedNoData
            /\ <<"error", "recieving">> \in log
            /\ \A e \in log : e[2] \notin {"timed out", "null responce"})
    /\ [](recvd = <<"data", "empty">> =>
            /\ ReturnedNoData
            /\ <<"warning", "null responce">> \in log
            /\ \A e \in log : e[2] \notin {"timed out", "recieving"})

\* the recv of a bound socket has timed out and read_hs_packet has returned
C11_Witness ==
    /\ recvd = <<"raised", "timeout">>
    /\ ReturnedNoData
    /\ sock = "closed"
    /\ calls["recv"] = 1

\* C12: one call of read_hs_packet opens one socket, and the socket is
\* closed whenever the call is over, however it ended; at the start of a
\* tick, also after a failed tick, no socket of an earlier tick is open or
\* bound.
C12_SocketClosedOnEveryPath ==
    /\ [](calls["socket"] <= 1)
    /\ [](sock \in {"open", "bound"} =>
            pc \in {"hs_bind", "hs_recv"} /\ calls["socket"] = 1)
    /\ [](pc = "hs_decode" => sock = "closed" /\ calls["socket"] = 1)
    /\ [][pc' # pc /\ pc \in {"hs_bind", "hs_recv"} /\ pc' # "hs_recv" =>
            sock' = "closed"]_vars
    /\ [][pc = "while_exit" /\ pc' = "fetch" =>
            sock \in {"none", "closed"}]_vars

\* a tick that opened and bound its socket has failed after the recv: the
\* tick is over and the socket is closed
C12_Witness ==
    /\ pc = "next_time"
    /\ tickResult = "raised"
    /\ calls["socket"] = 1
    /\ calls["recv"] = 1
    /\ sock = "closed"

\* what ping is to return for the outcome of subprocess.run
ProbeTimedOut == ping_output[1] = "TimeoutExpired"
ProbeFailed == ping_output[1] \notin {None, "TimeoutExpired"}
ProbeReturned == ping_output[1] = None

\* C13: ping raises nothing to its caller: it returns -1 when subprocess.run
\* raised TimeoutExpired, -9 when subprocess.run raised anything else, and
\* otherwise the return code of the probe process; the tick goes on with the
\* next source, and no tick is abandoned at ping.
C13_PingReturnsCode ==
    /\ [][pc = "ping_return" /\ pc' # pc =>
            /\ pc' = "fetch"
            /\ exc' = None
            /\ idx' = idx + 1
            /\ "ping" \in DOMAIN status_data'
            /\ ProbeTimedOut => status_data'["ping"] = <<"ping", -1>>
            /\ ProbeFailed => status_data'["ping"] = <<"ping", -9>>
            /\ ProbeReturned =>
                  status_data'["ping"] = <<"ping", ping_output[2]>>]_vars
    /\ [](pc = "except" /\ idx <= Len(status_data_items) =>
            Item.fn # "ping")

\* the probe timed out: ping has returned -1 and logged a warning, and the
\* tick is at the next source
C13_Witness ==
    /\ pc = "fetch"
    /\ Item.fn = "get_sunsaver_data"
    /\ calls["subprocess.run"] = 1
    /\ status_data["ping"] = <<"ping", -1>>
    /\ <<"warning", "ping timeout">> \in log

C15_WaitDurationInRange ==
    [][/\ pc = "wait_arg" /\ pc' # pc =>
              0 <= wait_timeout' /\ wait_timeout' <= sleep_interval
       /\ pc # "wait_arg" /\ pc' = "wait_arg" =>
              pc = "while_wait" /\ ~exit_event]_vars

\* C16: when read_hs_packet has returned None (link down, bind error,
\* timeout, receive error, empty datagram), get_hs_data returns to
\* get_status_data without a call of the decoder; the decoder is called only
\* for the packet of a non-empty datagram.
C16_DecoderOnlyAfterDatagram ==
    [][pc = "hs_decode" /\ packet = NoData /\ pc' # pc =>
          /\ calls'["decode_hs_packet"] = calls["decode_hs_packet"]
          /\ exc' = None
          /\ pc' = "write"]_vars

\* C17: when two running calls of start_monitoring share one exit_event and
\* the event is set once, both calls return, however their tests, waits and
\* clears of the event interleave.
C17_SharedEventStopsBoth ==
    (setAt # <<>>) ~> (\A i \in Loops : pc[i] = "done")

\* C18: for a non-empty datagram the packet read_hs_packet returns is the
\* first min(length of the datagram, packet_size) bytes of it, byte for
\* byte; the bytes beyond packet_size are dropped and nothing is logged
\* above debug severity.
C18_PacketIsPrefix ==
    pc = "hs_decode" /\ recvd[2] # <<>> =>
        /\ packet # NoData
        /\ Len(packet) = Min(Len(recvd[2]), packet_size)
        /\ \A i \in 1..Len(packet) : packet[i] = recvd[2][i]
        /\ exc = None
        /\ \A e \in log : e[1] = "debug"

\* a datagram longer than packet_size whose bytes are not all the same has
\* been cut to packet_size
C18_Witness ==
    /\ pc = "hs_decode"
    /\ Len(recvd[2]) > packet_size
    /\ Len(packet) = packet_size
    /\ recvd[2][1] # recvd[2][Len(recvd[2])]

\* the operation the tick has just failed in
BindHasFailed == bind_exc # <<>>
RecvHasFailed == recvd # <<>> /\ recvd[1] = "raised"
ProbeHasFailed == ping_output # <<>> /\ ping_output[1] # None

\* C19: within one tick each source's fn is called at most once, a call of
\* read_hs_packet makes at most one bind and one recv, and a call of ping
\* runs at most one probe process; after a failure the operation is not
\* called again before the next tick starts.
C19_NoRetryWithinTick ==
    /\ [](\A op \in Operations : calls[op] <= 1)
    /\ [][BindHasFailed =>
            /\ calls'["bind"] <= calls["bind"]
            /\ calls'["recv"] <= calls["recv"]
            /\ calls'["socket"] <= calls["socket"]]_vars
    /\ [][RecvHasFailed => calls'["recv"] <= calls["recv"]]_vars
    /\ [][ProbeHasFailed =>
            calls'["subprocess.run"] <= calls["subprocess.run"]]_vars
    /\ [][calls # NoCalls /\ calls' = NoCalls =>
            pc = "next_time" \/ (pc = "while_exit" /\ pc' = "fetch")]_vars

\* the bind failed: the tick is over with one bind, no recv and every source
\* fetched once
C19_Witness ==
    /\ pc = "next_time"
    /\ tickResult = "returned"
    /\ <<"error", "connecting">> \in log
    /\ calls["bind"] = 1
    /\ calls["recv"] = 0
    /\ \A i \in 1..Len(STATUS_DATA_ITEMS) : calls[STATUS_DATA_ITEMS[i].fn] = 1

\* start_monitoring was called with the event set, and no one has set the
\* event since: the event is still set, or the call is past its loop
CalledWithEventSet == setAt = "" /\ (exit_event \/ pc \in {"clear", "done"})

\* C20: a call of start_monitoring that finds the event set at its start
\* runs no tick, calls no source and no wait, hands no record to
\* output.write_line_csv, and returns with the event cleared.
C20_SetAtCallRunsNothing ==
    /\ [](CalledWithEventSet =>
            /\ pc \in {"while_exit", "clear", "done"}
            /\ next_time = 0 /\ tickStart = 0 /\ tickResult = ""
            /\ calls = NoCalls /\ sock = "none" /\ log = {}
            /\ written = <<>>
            /\ wait_timeout = 0 /\ waitsAfterSet = 0 /\ ticksAfterSet = 0)
    /\ [](CalledWithEventSet /\ pc = "done" =>
            ~exit_event /\ exitReason = "exit_event set")
    /\ [][CalledWithEventSet /\ pc' # pc =>
            \/ pc = "while_exit" /\ pc' = "clear"
            \/ pc = "clear" /\ pc' = "done"]_vars

\* the call found the event set and has returned, the event cleared
C20_Witness ==
    /\ CalledWithEventSet
    /\ pc = "done"
    /\ ~exit_event
    /\ next_time = 0
    /\ calls = NoCalls

====
